---- MODULE Spec2Model ----
(***************************************************************************)
(* A model of app.py of Table-Extractor: the page-by-page text extraction  *)
(* with its OCR fallback (extract_text_from_pdf), the line matcher         *)
(* (parse_toc) with its digit validation and normalisation, and the        *)
(* upload handler that runs one after the other.                           *)
(*                                                                         *)
(* A string is a sequence of characters; a character is a one-character    *)
(* TLA+ string when it is ASCII and "uXXXX" (its code point) otherwise:    *)
(*   u0966 .. u096f   the Devanagari digits 0 .. 9                         *)
(*   u0663            ARABIC-INDIC DIGIT THREE: \d matches it, but it is   *)
(*                    not one of the twenty digits is_valid_page_number    *)
(*                    accepts                                              *)
(*   u2014            EM DASH                                              *)
(*   u09xx            the Devanagari letters and signs of the markers and  *)
(*                    skip terms                                           *)
(***************************************************************************)
EXTENDS Integers, Sequences, FiniteSets, TLC

VARIABLES
    pc,        \* where the request is: "upload", "extract", "parse", "loop", "done", "failed"
    language,  \* the form's language: "eng", "hin" or "both"
    pages,     \* the document: the embedded text of each page (reader.pages)
    page_num,  \* extract_text_from_pdf: the pages done so far
    text,      \* the text extracted so far, then parse_toc's argument
    log,       \* per page done: its embedded text, what rasterization and OCR did,
               \* OCR's output, and the page_text added to text
    is_hindi,  \* parse_toc's mode
    lines,     \* parse_toc: text.split('\n')
    line_idx,  \* parse_toc: the line the loop is at
    entries,   \* parse_toc: the entries so far
    tokens     \* per entry, the page token as captured, before convert_hindi_digits

vars == <<pc, language, pages, page_num, text, log, is_hindi, lines, line_idx, entries, tokens>>

(***************************************************************************)
(* Characters                                                              *)
(***************************************************************************)
ArabicDigits == {"0", "1", "2", "3", "4", "5", "6", "7", "8", "9"}

HindiDigitSeq == <<"u0966", "u0967", "u0968", "u0969", "u096a", "u096b", "u096c", "u096d", "u096e", "u096f">>

ArabicDigitSeq == <<"0", "1", "2", "3", "4", "5", "6", "7", "8", "9">>

HindiDigits == {HindiDigitSeq[i] : i \in 1..Len(HindiDigitSeq)}

\* Decimal digits of other scripts: \d matches every Unicode decimal digit.
OtherDigits == {"u0663"}

\* What \d matches in a str pattern.
ReDigit == ArabicDigits \cup HindiDigits \cup OtherDigits

\* What \s matches, and what str.strip() removes.
Whitespace == {" ", "\t", "\n", "\r"}

UpperSeq == <<"A", "B", "C", "D", "E", "F", "G", "H", "I", "J", "K", "L", "M", "N", "O", "P", "Q", "R", "S", "T", "U", "V", "W", "X", "Y", "Z">>

LowerSeq == <<"a", "b", "c", "d", "e", "f", "g", "h", "i", "j", "k", "l", "m", "n", "o", "p", "q", "r", "s", "t", "u", "v", "w", "x", "y", "z">>

Adhyay == <<"u0905", "u0927", "u094d", "u092f", "u093e", "u092f">>

Khand == <<"u0916", "u0902", "u0921">>

Parishisht == <<"u092a", "u0930", "u093f", "u0936", "u093f", "u0937", "u094d", "u091f">>

Prastavana == <<"u092a", "u094d", "u0930", "u0938", "u094d", "u0924", "u093e", "u0935", "u0928", "u093e">>

Bhag == <<"u092d", "u093e", "u0917">>

Anubhag == <<"u0905", "u0928", "u0941", "u092d", "u093e", "u0917">>

Prakaran == <<"u092a", "u094d", "u0930", "u0915", "u0930", "u0923">>

\* The alternation of the chapter-heading pattern, in its order.
HeadingMarkers == <<Adhyay, Khand, Parishisht, Prastavana, Bhag, Anubhag, Prakaran>>

\* Every character the model's strings are made of.
Chars ==
    ReDigit \cup Whitespace \cup {".", "-", "_", ":", "u2014"}
    \cup {UpperSeq[i] : i \in 1..Len(UpperSeq)} \cup {LowerSeq[i] : i \in 1..Len(LowerSeq)}
    \cup UNION {{HeadingMarkers[i][j] : j \in 1..Len(HeadingMarkers[i])} : i \in 1..Len(HeadingMarkers)}
    \cup {"u0935", "u093f", "u0937", "u092f", "u0938", "u0942", "u091a", "u0940", "u0905", "u0928",
          "u0941", "u0915", "u094d", "u0930", "u092e", "u0923", "u093e", "u0917", "u092a", "u0943", "u0920"}

(***************************************************************************)
(* Strings                                                                 *)
(***************************************************************************)
SubStr(s, a, b) == [i \in 1..(b - a + 1) |-> s[a + i - 1]]

\* str.lower(), one character.
LowerChar(c) ==
    IF \E i \in 1..Len(UpperSeq) : UpperSeq[i] = c
    THEN LowerSeq[CHOOSE i \in 1..Len(UpperSeq) : UpperSeq[i] = c]
    ELSE c

Lower(s) == [i \in 1..Len(s) |-> LowerChar(s[i])]

\* term in s
Contains(s, term) ==
    \E a \in 1..(Len(s) - Len(term) + 1) : SubStr(s, a, a + Len(term) - 1) = term

RECURSIVE LStrip(_)
LStrip(s) == IF s # <<>> /\ Head(s) \in Whitespace THEN LStrip(Tail(s)) ELSE s

RECURSIVE RStrip(_)
RStrip(s) ==
    IF s # <<>> /\ s[Len(s)] \in Whitespace THEN RStrip(SubStr(s, 1, Len(s) - 1)) ELSE s

\* str.strip()
Strip(s) == RStrip(LStrip(s))

\* str.split('\n'): the pieces between the line breaks, empty pieces kept.
RECURSIVE Split(_)
Split(s) ==
    IF \E i \in 1..Len(s) : s[i] = "\n"
    THEN LET i == CHOOSE i \in 1..Len(s) : s[i] = "\n" /\ \A j \in 1..(i - 1) : s[j] # "\n"
         IN  <<SubStr(s, 1, i - 1)>> \o Split(SubStr(s, i + 1, Len(s)))
    ELSE <<s>>

(***************************************************************************)
(* convert_hindi_digits, is_valid_page_number                              *)
(***************************************************************************)
ConvertChar(c) ==
    IF c \in HindiDigits
    THEN ArabicDigitSeq[CHOOSE i \in 1..Len(HindiDigitSeq) : HindiDigitSeq[i] = c]
    ELSE c

convert_hindi_digits(s) == [i \in 1..Len(s) |-> ConvertChar(s[i])]

\* A validation that takes every character \d matches for a page digit.
is_valid_any_digit(page_str) ==
    /\ page_str # <<>>
    /\ \A i \in 1..Len(page_str) : page_str[i] \in ReDigit

is_valid_page_number(page_str) ==
    /\ page_str # <<>>
    /\ \A i \in 1..Len(page_str) : page_str[i] \in (ArabicDigits \cup HindiDigits)

(***************************************************************************)
(* re.match: a pattern is a sequence of items, matched left to right with  *)
(* backtracking. A class item takes min.. characters of its set (one at    *)
(* most unless many), the longest run first unless lazy; an alt item takes *)
(* the first of its words that lets the rest match; open and close record  *)
(* where group g starts and ends; eol is $.                                *)
(***************************************************************************)
Item(kind, set, min, many, lazy, g, words) ==
    [kind |-> kind, set |-> set, min |-> min, many |-> many, lazy |-> lazy, g |-> g, words |-> words]

Star(set) == Item("cls", set, 0, TRUE, FALSE, 0, <<>>)

Plus(set) == Item("cls", set, 1, TRUE, FALSE, 0, <<>>)

LazyStar(set) == Item("cls", set, 0, TRUE, TRUE, 0, <<>>)

Opt(set) == Item("cls", set, 0, FALSE, FALSE, 0, <<>>)

Lit(c) == Item("cls", {c}, 1, FALSE, FALSE, 0, <<>>)

Open(g) == Item("open", {}, 0, FALSE, FALSE, g, <<>>)

Close(g) == Item("close", {}, 0, FALSE, FALSE, g, <<>>)

Alt(words) == Item("alt", {}, 0, FALSE, FALSE, 0, words)

Eol == Item("eol", {}, 0, FALSE, FALSE, 0, <<>>)

\* "." matches everything but a line break.
AnyChar == Chars \ {"\n"}

NoMatch == [ok |-> FALSE, caps |-> <<>>]

NoCaps == <<[s |-> 0, e |-> 0], [s |-> 0, e |-> 0]>>

\* How many characters of set follow position pos (pos is the next one to read).
RECURSIVE RunLen(_, _, _)
RunLen(line, pos, set) ==
    IF pos <= Len(line) /\ line[pos] \in set THEN 1 + RunLen(line, pos + 1, set) ELSE 0

WordAt(line, pos, w) ==
    /\ pos + Len(w) - 1 <= Len(line)
    /\ SubStr(line, pos, pos + Len(w) - 1) = w

RECURSIVE MatchFrom(_, _, _, _, _)
RECURSIVE TryCounts(_, _, _, _, _, _, _)
RECURSIVE TryWords(_, _, _, _, _, _)

\* Item k takes n characters; on failure the next count in its order is tried.
TryCounts(pat, k, line, pos, caps, n, hi) ==
    IF n < pat[k].min \/ n > hi
    THEN NoMatch
    ELSE LET r == MatchFrom(pat, k + 1, line, pos + n, caps)
         IN  IF r.ok THEN r
             ELSE TryCounts(pat, k, line, pos, caps, IF pat[k].lazy THEN n + 1 ELSE n - 1, hi)

TryWords(pat, k, line, pos, caps, w) ==
    IF w > Len(pat[k].words)
    THEN NoMatch
    ELSE LET r == IF WordAt(line, pos, pat[k].words[w])
                  THEN MatchFrom(pat, k + 1, line, pos + Len(pat[k].words[w]), caps)
                  ELSE NoMatch
         IN  IF r.ok THEN r ELSE TryWords(pat, k, line, pos, caps, w + 1)

MatchFrom(pat, k, line, pos, caps) ==
    IF k > Len(pat)
    THEN [ok |-> TRUE, caps |-> caps]
    ELSE CASE pat[k].kind = "open" ->
                MatchFrom(pat, k + 1, line, pos, [caps EXCEPT ![pat[k].g].s = pos])
           [] pat[k].kind = "close" ->
                MatchFrom(pat, k + 1, line, pos, [caps EXCEPT ![pat[k].g].e = pos])
           [] pat[k].kind = "eol" ->
                IF pos = Len(line) + 1 \/ (pos = Len(line) /\ line[pos] = "\n")
                THEN MatchFrom(pat, k + 1, line, pos, caps)
                ELSE NoMatch
           [] pat[k].kind = "alt" -> TryWords(pat, k, line, pos, caps, 1)
           [] OTHER ->
                LET run == RunLen(line, pos, pat[k].set)
                    hi  == IF pat[k].many \/ run = 0 THEN run ELSE 1
                IN  TryCounts(pat, k, line, pos, caps, IF pat[k].lazy THEN pat[k].min ELSE hi, hi)

\* re.match(pattern, line, re.IGNORECASE | re.UNICODE): anchored at the start of
\* the line. The patterns name no cased letter, so IGNORECASE changes no match.
ReMatch(pat, line) == MatchFrom(pat, 1, line, 1, NoCaps)

\* match.group(g)
Group(line, m, g) == SubStr(line, m.caps[g].s, m.caps[g].e - 1)

(***************************************************************************)
(* The patterns of parse_toc                                               *)
(***************************************************************************)
SepDots == Whitespace \cup {".", "-"}

SepDash == Whitespace \cup {"-", "_"}

\* [०१२३४५६७८९\d]
HindiOrDigit == HindiDigits \cup ReDigit

\* The dot-leader pattern with a greedy title group, ^(.*)[\s\.\-]+(\d+)\s*$
CommonDotsGreedy ==
    <<Open(1), Star(AnyChar), Close(1), Plus(SepDots),
      Open(2), Plus(ReDigit), Close(2), Star(Whitespace), Eol>>

\* ^(.*?)[\s\.\-]+(\d+)\s*$
CommonDots ==
    <<Open(1), LazyStar(AnyChar), Close(1), Plus(SepDots),
      Open(2), Plus(ReDigit), Close(2), Star(Whitespace), Eol>>

\* ^(.*?)[\s\-\_]+(\d+)\s*$
CommonDash ==
    <<Open(1), LazyStar(AnyChar), Close(1), Plus(SepDash),
      Open(2), Plus(ReDigit), Close(2), Star(Whitespace), Eol>>

\* ^\s*(\d+\..*?)[\s\.\-]+(\d+)\s*$
CommonNumbered ==
    <<Star(Whitespace), Open(1), Plus(ReDigit), Lit("."), LazyStar(AnyChar), Close(1),
      Plus(SepDots), Open(2), Plus(ReDigit), Close(2), Star(Whitespace), Eol>>

common_patterns == <<CommonDots, CommonDash, CommonNumbered>>

\* ^\s*([०-९]+\.\s+.*?)[\s\.\-]*([०-९\d]+)\s*$
HindiNumbered ==
    <<Star(Whitespace), Open(1), Plus(HindiDigits), Lit("."), Plus(Whitespace),
      LazyStar(AnyChar), Close(1), Star(SepDots),
      Open(2), Plus(HindiOrDigit), Close(2), Star(Whitespace), Eol>>

\* ^(.*?)[\s\-\—]+([०-९\d]+)\s*$
HindiDash ==
    <<Open(1), LazyStar(AnyChar), Close(1), Plus(Whitespace \cup {"-", "u2014"}),
      Open(2), Plus(HindiOrDigit), Close(2), Star(Whitespace), Eol>>

\* ^(.*?)[\s\.]+([०-९\d]+)\s*$
HindiDots ==
    <<Open(1), LazyStar(AnyChar), Close(1), Plus(Whitespace \cup {"."}),
      Open(2), Plus(HindiOrDigit), Close(2), Star(Whitespace), Eol>>

\* ^(.*?(?:अध्याय|खंड|...)\s*[०-९]*[\.\:\-]?\s*.*?)[\s\.\-]*([०-९\d]+)\s*$
HindiHeading ==
    <<Open(1), LazyStar(AnyChar), Alt(HeadingMarkers), Star(Whitespace), Star(HindiDigits),
      Opt({".", ":", "-"}), Star(Whitespace), LazyStar(AnyChar), Close(1), Star(SepDots),
      Open(2), Plus(HindiOrDigit), Close(2), Star(Whitespace), Eol>>

\* ^(.*?)\s+([०-९\d]+)$
HindiGeneric ==
    <<Open(1), LazyStar(AnyChar), Close(1), Plus(Whitespace),
      Open(2), Plus(HindiOrDigit), Close(2), Eol>>

hindi_patterns == <<HindiNumbered, HindiDash, HindiDots, HindiHeading, HindiGeneric>>

skip_terms_eng ==
    << <<"t", "a", "b", "l", "e", " ", "o", "f", " ", "c", "o", "n", "t", "e", "n", "t", "s">>,
       <<"c", "o", "n", "t", "e", "n", "t", "s">>,
       <<"p", "a", "g", "e">>,
       <<"c", "h", "a", "p">> >>

skip_terms_hindi ==
    << <<"u0935", "u093f", "u0937", "u092f", " ", "u0938", "u0942", "u091a", "u0940">>,
       <<"u0905", "u0928", "u0941", "u0915", "u094d", "u0930", "u092e", "u0923", "u093f", "u0915", "u093e">>,
       <<"u0938", "u093e", "u092e", "u0917", "u094d", "u0930", "u0940">>,
       <<"u092a", "u0943", "u0937", "u094d", "u0920">>,
       Adhyay >>

Patterns(hindi) == IF hindi THEN hindi_patterns ELSE common_patterns

SkipTerms(hindi) == IF hindi THEN skip_terms_hindi ELSE skip_terms_eng

MinLineLen == 5

\* if not line or len(line) < 5
TooShort(line) == line = <<>> \/ Len(line) < MinLineLen

\* A skip test that does not lower the line.
HasSkipTermCaseSensitive(line, hindi) ==
    \E t \in 1..Len(SkipTerms(hindi)) : Contains(line, SkipTerms(hindi)[t])

\* any(term in line.lower() for term in skip_terms)
HasSkipTerm(line, hindi) ==
    \E t \in 1..Len(SkipTerms(hindi)) : Contains(Lower(line), SkipTerms(hindi)[t])

\* re.search(r'(\d+|[०-९]+)$', line): the leftmost start at which one of the two
\* alternatives, tried in order, reaches the end of the line.
DigitTail(line, from) ==
    LET a == MatchFrom(<<Open(1), Plus(ReDigit), Close(1), Eol>>, 1, line, from, NoCaps)
    IN  IF a.ok THEN a
        ELSE MatchFrom(<<Open(1), Plus(HindiDigits), Close(1), Eol>>, 1, line, from, NoCaps)

RECURSIVE SearchDigitTail(_, _)
SearchDigitTail(line, from) ==
    IF from > Len(line) + 1 THEN NoMatch
    ELSE IF DigitTail(line, from).ok THEN DigitTail(line, from)
         ELSE SearchDigitTail(line, from + 1)

NoEntry == [emit |-> FALSE, chapter |-> <<>>, page |-> <<>>, token |-> <<>>, rule |-> 0, via |-> "none"]

Entry(chapter, token, rule, via) ==
    [emit |-> TRUE, chapter |-> chapter, page |-> convert_hindi_digits(token),
     token |-> token, rule |-> rule, via |-> via]

\* The fallback of a rule whose page token is not valid: the trailing digits of
\* the line, and everything before them as the chapter.
Fallback(line, rule) ==
    LET dm == SearchDigitTail(line, 1)
    IN  IF dm.ok /\ is_valid_page_number(Group(line, dm, 1))
        THEN Entry(Strip(SubStr(line, 1, dm.caps[1].s - 1)), Group(line, dm, 1), rule, "fallback")
        ELSE NoEntry

\* for pattern in patterns: the first pattern that matches and validates (by its
\* page group or by the fallback) makes the entry; a pattern that matches but
\* does not validate leaves the line to the next pattern.
RECURSIVE TryPatterns(_, _, _)
TryPatterns(line, pats, i) ==
    IF i > Len(pats) THEN NoEntry
    ELSE LET m == ReMatch(pats[i], line)
         IN  IF ~m.ok THEN TryPatterns(line, pats, i + 1)
             ELSE LET chapter == Strip(Group(line, m, 1))
                      page    == Strip(Group(line, m, 2))
                  IN  IF is_valid_page_number(page)
                      THEN Entry(chapter, page, i, "rule")
                      ELSE IF Fallback(line, i).emit THEN Fallback(line, i)
                           ELSE TryPatterns(line, pats, i + 1)

\* One iteration of parse_toc's loop over the lines, as what it appends.
LineResult(raw, hindi) ==
    LET line == Strip(raw)
    IN  IF TooShort(line) \/ HasSkipTerm(line, hindi) THEN NoEntry
        ELSE TryPatterns(line, Patterns(hindi), 1)

\* An append that leaves out an entry the list already holds.
AppendEntryDedup(es, r) ==
    IF \E k \in 1..Len(es) : es[k] = [chapter |-> r.chapter, page |-> r.page]
    THEN es
    ELSE Append(es, [chapter |-> r.chapter, page |-> r.page])

\* entries.append({"chapter": chapter, "page": page})
AppendEntry(es, r) == Append(es, [chapter |-> r.chapter, page |-> r.page])

\* parse_toc as a function of its arguments: the loop over the lines run to its end.
RECURSIVE ParseLines(_, _, _)
ParseLines(ls, hindi, es) ==
    IF ls = <<>> THEN es
    ELSE ParseLines(Tail(ls), hindi,
                    IF LineResult(Head(ls), hindi).emit
                    THEN AppendEntry(es, LineResult(Head(ls), hindi))
                    ELSE es)

ParseTocOf(t, hindi) == ParseLines(Split(t), hindi, <<>>)

(***************************************************************************)
(* extract_text_from_pdf                                                   *)
(***************************************************************************)
\* A test for OCR that does not strip the embedded text.
NeedsOcrNoStrip(page_text) == page_text = <<>>

\* if not page_text.strip(): the page has no embedded text and goes to OCR.
NeedsOcr(page_text) == Strip(page_text) = <<>>

\* A failure that is not caught: it leaves extract_text_from_pdf.
OcrFailurePropagates(page_text) == [pc |-> "failed", page_text |-> <<>>]

\* except Exception: the failure is reported, the page's text is empty and the
\* loop goes on.
OcrFailure(page_text) == [pc |-> "extract", page_text |-> <<>>]

\* text += page_text + "\n"
AddPage(t, page_text) == t \o page_text \o <<"\n">>

PageDone(embedded, raster, ocr, out, step) ==
    /\ pc' = step.pc
    /\ page_num' = page_num + 1
    /\ text' = AddPage(text, step.page_text)
    /\ log' = Append(log, [embedded |-> embedded, raster |-> raster, ocr |-> ocr,
                           out |-> out, page_text |-> step.page_text])
    /\ UNCHANGED <<language, pages, is_hindi, lines, line_idx, entries, tokens>>

(***************************************************************************)
(* The documents and texts the model runs on                               *)
(***************************************************************************)
MaxPages == 3

MaxSepLen == 2

MaxLines == 3

RECURSIVE SeqsUpTo(_, _)
SeqsUpTo(set, n) ==
    IF n = 0 THEN {<<>>}
    ELSE SeqsUpTo(set, n - 1) \cup {Append(q, c) : q \in SeqsUpTo(set, n - 1), c \in set}

RECURSIVE Join(_)
Join(ls) ==
    IF Len(ls) = 0 THEN <<>>
    ELSE IF Len(ls) = 1 THEN ls[1]
    ELSE ls[1] \o <<"\n">> \o Join(Tail(ls))

Languages == {"eng", "hin", "both"}

\* Embedded page texts: a page with no text layer, a Latin line that is an
\* entry in both modes, a page of two lines of which the first holds a Latin
\* skip term and the second matches no rule.
BlankPage == <<" ">>

EmbeddedPages ==
    { BlankPage,
      <<"a", "b", "c", ".", "1">>,
      <<"P", "a", "g", "e", " ", "2", "\n", "a", "b", "c", "d", "e">> }

\* What OCR reads on a page it is given.
OcrOutputs == { <<"x", "y", "z", "-", "u0969">>, <<>> }

Documents == UNION {[1..n -> EmbeddedPages] : n \in 1..MaxPages}

\* Titles: none, a plain one, one ending in a digit, a numbered one, and in
\* Latin mode one with a skip term in capitals, in Hindi mode headings (a marker,
\* a heading number or none, a title).
CommonTitles == { <<>>, <<"a", "b", "c">>, <<"a", "b", " ", "7">> }

LatinTitles == { <<"1", ".", " ", "a", "b">>, <<"P", "a", "g", "e">> }

HeadingTitles ==
    { m \o n \o <<" ", "a", "b">> : m \in {Adhyay, Khand}, n \in {<<>>, <<" ", "u0967", ":">>} }

HindiTitles == { <<"u0967", ".", " ", "a", "b">> } \cup HeadingTitles

Titles(hindi) == CommonTitles \cup (IF hindi THEN HindiTitles ELSE LatinTitles)

\* The characters a separator class of the mode's patterns names.
SepChars(hindi) == {".", " ", "-"} \cup (IF hindi THEN {"u2014"} ELSE {"_"})

SepRuns(hindi) == SeqsUpTo(SepChars(hindi), MaxSepLen)

\* Page tokens: none, Arabic ones of one to three digits, Devanagari, both
\* scripts in one token, and tokens with a digit of a third script.
DigitRuns ==
    { <<>>, <<"5">>, <<"1", "2">>, <<"1", "2", "3">>, <<"u0967", "u0968">>, <<"1", "u0968">>,
      <<"u0663">>, <<"1", "u0663">> }

Paddings == { <<>>, <<" ">> }

SingleLines(hindi) ==
    { p \o t \o s \o d \o p : p \in Paddings, t \in Titles(hindi), s \in SepRuns(hindi), d \in DigitRuns }

\* The lines of the texts of several lines: an entry, an empty line, an entry
\* with padding and a Devanagari page, a line that matches no rule.
LinePool ==
    { <<"a", "b", "c", ".", "1">>,
      <<>>,
      <<" ", "a", "b", "-", "u0967", "u0968", " ">>,
      <<"a", "b", "c", "d", "e">> }

MultiLines == { Join(ls) : ls \in UNION {[1..n -> LinePool] : n \in 2..MaxLines} }

ParseInputs(hindi) == SingleLines(hindi) \cup MultiLines

(***************************************************************************)
(* upload_file: the mode and the OCR language from the form, then          *)
(* extract_text_from_pdf, then parse_toc                                   *)
(***************************************************************************)
Init ==
    /\ pc = "upload"
    /\ language \in Languages
    /\ pages \in Documents
    /\ page_num = 0
    /\ text = <<>>
    /\ log = <<>>
    /\ is_hindi = FALSE
    /\ lines = <<>>
    /\ line_idx = 1
    /\ entries = <<>>
    /\ tokens = <<>>

\* parse_toc called on a text in a mode.
InitParse ==
    /\ pc = "parse"
    /\ is_hindi \in BOOLEAN
    /\ language = IF is_hindi THEN "hin" ELSE "eng"
    /\ text \in ParseInputs(is_hindi)
    /\ pages = <<>>
    /\ page_num = 0
    /\ log = <<>>
    /\ lines = <<>>
    /\ line_idx = 1
    /\ entries = <<>>
    /\ tokens = <<>>

Upload ==
    /\ pc = "upload"
    /\ is_hindi' = (language = "hin" \/ language = "both")
    /\ pc' = "extract"
    /\ UNCHANGED <<language, pages, page_num, text, log, lines, line_idx, entries, tokens>>

\* extract_text_from_pdf is at a page.
AtPage == pc = "extract" /\ page_num < Len(pages)

\* The page has embedded text: it is added as it is.
EmbeddedPage ==
    /\ AtPage
    /\ ~NeedsOcr(pages[page_num + 1])
    /\ PageDone(pages[page_num + 1], "none", "none", <<>>,
                [pc |-> "extract", page_text |-> pages[page_num + 1]])

\* convert_from_path raises.
RasterRaises ==
    /\ AtPage
    /\ NeedsOcr(pages[page_num + 1])
    /\ PageDone(pages[page_num + 1], "raised", "none", <<>>, OcrFailure(pages[page_num + 1]))

\* convert_from_path returns no image: if images: is false and page_text stays.
NoImages ==
    /\ AtPage
    /\ NeedsOcr(pages[page_num + 1])
    /\ PageDone(pages[page_num + 1], "empty", "none", <<>>,
                [pc |-> "extract", page_text |-> pages[page_num + 1]])

\* pytesseract.image_to_string raises.
OcrRaises ==
    /\ AtPage
    /\ NeedsOcr(pages[page_num + 1])
    /\ PageDone(pages[page_num + 1], "ok", "raised", <<>>, OcrFailure(pages[page_num + 1]))

\* pytesseract.image_to_string returns what it read.
OcrReads ==
    /\ AtPage
    /\ NeedsOcr(pages[page_num + 1])
    /\ \E out \in OcrOutputs :
          PageDone(pages[page_num + 1], "ok", "ok", out, [pc |-> "extract", page_text |-> out])

\* return text, and upload_file calls parse_toc on it.
ExtractReturn ==
    /\ pc = "extract"
    /\ page_num = Len(pages)
    /\ pc' = "parse"
    /\ UNCHANGED <<language, pages, page_num, text, log, is_hindi, lines, line_idx, entries, tokens>>

\* entries = [] and text.split('\n')
ParseStart ==
    /\ pc = "parse"
    /\ lines' = Split(text)
    /\ line_idx' = 1
    /\ entries' = <<>>
    /\ tokens' = <<>>
    /\ pc' = "loop"
    /\ UNCHANGED <<language, pages, page_num, text, log, is_hindi>>

\* The loop of parse_toc is at a line.
AtLine == pc = "loop" /\ line_idx <= Len(lines)

\* line = line.strip()
CurrentLine == Strip(lines[line_idx])

\* The loop goes to the next line.
LineDone ==
    /\ line_idx' = line_idx + 1
    /\ UNCHANGED <<pc, language, pages, page_num, text, log, is_hindi, lines>>

\* The line is empty or shorter than 5 characters: continue.
SkipShortLine ==
    /\ AtLine
    /\ TooShort(CurrentLine)
    /\ UNCHANGED <<entries, tokens>>
    /\ LineDone

\* The line holds a skip term: continue.
SkipTermLine ==
    /\ AtLine
    /\ ~TooShort(CurrentLine)
    /\ HasSkipTerm(CurrentLine, is_hindi)
    /\ UNCHANGED <<entries, tokens>>
    /\ LineDone

\* A pattern matches and its page validates: the entry is appended, break.
AppendLine ==
    /\ AtLine
    /\ ~TooShort(CurrentLine)
    /\ ~HasSkipTerm(CurrentLine, is_hindi)
    /\ TryPatterns(CurrentLine, Patterns(is_hindi), 1).emit
    /\ entries' = AppendEntry(entries, TryPatterns(CurrentLine, Patterns(is_hindi), 1))
    /\ tokens' = Append(tokens, TryPatterns(CurrentLine, Patterns(is_hindi), 1).token)
    /\ LineDone

\* No pattern matches and validates: the line adds nothing.
UnmatchedLine ==
    /\ AtLine
    /\ ~TooShort(CurrentLine)
    /\ ~HasSkipTerm(CurrentLine, is_hindi)
    /\ ~TryPatterns(CurrentLine, Patterns(is_hindi), 1).emit
    /\ UNCHANGED <<entries, tokens>>
    /\ LineDone

\* return entries
ParseReturn ==
    /\ pc = "loop"
    /\ line_idx > Len(lines)
    /\ pc' = "done"
    /\ UNCHANGED <<language, pages, page_num, text, log, is_hindi, lines, line_idx, entries, tokens>>

NextParse ==
    \/ ParseStart
    \/ SkipShortLine
    \/ SkipTermLine
    \/ AppendLine
    \/ UnmatchedLine
    \/ ParseReturn

Next ==
    \/ Upload
    \/ EmbeddedPage
    \/ RasterRaises
    \/ NoImages
    \/ OcrRaises
    \/ OcrReads
    \/ ExtractReturn
    \/ NextParse

Spec == Init /\ [][Next]_vars

SpecParse == InitParse /\ [][NextParse]_vars

(***************************************************************************)
(* Properties                                                              *)
(***************************************************************************)
IsRun(q, set) == q # <<>> /\ \A i \in 1..Len(q) : q[i] \in set

NoTerm(q, terms) == ~\E t \in 1..Len(terms) : Contains(Lower(q), terms[t])

\* A trimmed, non-empty title without a skip term that ends in no dot, dash or space.
IsTitle(q, terms, dashes) ==
    /\ q # <<>>
    /\ Strip(q) = q
    /\ NoTerm(q, terms)
    /\ q[Len(q)] \notin ({"."} \cup dashes \cup Whitespace)

TitleOf(line, i) == SubStr(line, 1, i)

SepOf(line, i, j) == SubStr(line, i + 1, j)

PageOf(line, j) == SubStr(line, j + 1, Len(line))

\* C1: in Latin mode a line T + S + D of at least 5 characters (T a trimmed,
\* non-empty title without a skip term that ends in no dot, dash or space, S a
\* non-empty run of dots, spaces and dashes, D a non-empty run of digits 0-9)
\* adds exactly the entry {chapter: T, page: D}.
C1_LatinDotLeader ==
    [][ (AtLine /\ ~is_hindi) =>
          LET line == lines[line_idx]
          IN  \A i, j \in 1..Len(line) :
                ( /\ i < j /\ j < Len(line) /\ Len(line) >= MinLineLen
                  /\ IsTitle(TitleOf(line, i), skip_terms_eng, {"-"})
                  /\ IsRun(SepOf(line, i, j), {".", " ", "-"})
                  /\ IsRun(PageOf(line, j), ArabicDigits) )
                => entries' = Append(entries, [chapter |-> TitleOf(line, i), page |-> PageOf(line, j)])
      ]_vars

\* The numbered title "1. ab..12" has made the entry {chapter: "1. ab", page: "12"}.
C1_Witness ==
    /\ pc = "done"
    /\ ~is_hindi
    /\ text = <<"1", ".", " ", "a", "b", ".", ".", "1", "2">>
    /\ entries = <<[chapter |-> <<"1", ".", " ", "a", "b">>, page |-> <<"1", "2">>]>>

\* The title of a heading h that begins with marker m: what follows the marker,
\* the heading number and its punctuation.
HeadingTitle(h, m) ==
    LET p1 == Len(m) + 1
        p2 == p1 + RunLen(h, p1, Whitespace)
        p3 == p2 + RunLen(h, p2, HindiDigits \cup ArabicDigits)
        p4 == IF p3 <= Len(h) /\ h[p3] \in {".", ":", "-"} THEN p3 + 1 ELSE p3
    IN  Strip(SubStr(h, p4, Len(h)))

\* C2: in Hindi mode a line that begins with a heading marker, goes on with an
\* optional heading number and a title, and ends in a space and a page number
\* (of at least 5 characters in all) adds exactly one entry, whose page is the
\* page number in Arabic digits and whose chapter holds the marker and the title.
C2_HindiHeadingLine ==
    [][ (AtLine /\ is_hindi) =>
          LET line == lines[line_idx]
          IN  \A k \in 1..Len(HeadingMarkers), j \in 1..Len(line) :
                LET m == HeadingMarkers[k]
                    h == SubStr(line, 1, j - 1)
                IN  ( /\ j < Len(line) /\ Len(line) >= MinLineLen
                      /\ WordAt(line, 1, m)
                      /\ line[j] = " "
                      /\ Strip(h) = h
                      /\ Len(h) > Len(m)
                      /\ HeadingTitle(h, m) # <<>>
                      /\ h[Len(h)] \notin (ReDigit \cup {".", "-", ":", "_", "u2014"})
                      /\ \/ IsRun(PageOf(line, j), ArabicDigits)
                         \/ IsRun(PageOf(line, j), HindiDigits) )
                    => \E e \in {entries'[n] : n \in 1..Len(entries')} :
                         /\ entries' = Append(entries, e)
                         /\ e.page = convert_hindi_digits(PageOf(line, j))
                         /\ Contains(e.chapter, m)
                         /\ Contains(e.chapter, HeadingTitle(h, m))
      ]_vars

\* What a page done is to add to the text when nothing fails: its embedded
\* text, or OCR's output when it has none and OCR ran.
OwnText(l) ==
    IF Strip(l.embedded) # <<>> THEN l.embedded
    ELSE IF l.ocr = "ok" THEN l.out ELSE l.embedded

PageFailed(l) == l.raster = "raised" \/ l.ocr = "raised"

RECURSIVE TextOfPages(_)
TextOfPages(lg) ==
    IF lg = <<>> THEN <<>>
    ELSE (IF PageFailed(Head(lg)) THEN <<>> ELSE OwnText(Head(lg))) \o <<"\n">> \o TextOfPages(Tail(lg))

RECURSIVE EntriesOfPages(_, _)
EntriesOfPages(lg, hindi) ==
    IF lg = <<>> THEN <<>>
    ELSE (IF PageFailed(Head(lg)) THEN <<>> ELSE ParseTocOf(OwnText(Head(lg)), hindi))
         \o EntriesOfPages(Tail(lg), hindi)

\* C3: whichever pages fail in rasterization or OCR, extract_text_from_pdf does
\* not raise and goes through all the pages; the text is, in page order, the
\* empty text and a line break for each page that failed and its own text and
\* a line break for every other page; and the result holds, in page order, the
\* entries of the pages that did not fail.
C3_OcrFailureIsPerPage ==
    /\ pc # "failed"
    /\ Len(log) = page_num
    /\ page_num <= Len(pages)
    /\ \A k \in 1..Len(log) : log[k].embedded = pages[k]
    /\ text = TextOfPages(log)
    /\ (pc \in {"parse", "loop", "done"} => page_num = Len(pages))
    /\ (pc = "done" => entries = EntriesOfPages(log, is_hindi))

\* Of three pages the second failed in OCR, and the entries of the first and
\* the third are the result.
C3_Witness ==
    /\ pc = "done"
    /\ Len(pages) = 3
    /\ ~PageFailed(log[1]) /\ PageFailed(log[2]) /\ ~PageFailed(log[3])
    /\ log[2].ocr = "raised"
    /\ log[3].ocr = "ok"
    /\ Len(ParseTocOf(OwnText(log[1]), is_hindi)) = 1
    /\ Len(ParseTocOf(OwnText(log[3]), is_hindi)) = 1
    /\ entries = ParseTocOf(OwnText(log[1]), is_hindi) \o ParseTocOf(OwnText(log[3]), is_hindi)

RECURSIVE TextOfLog(_)
TextOfLog(lg) ==
    IF lg = <<>> THEN <<>> ELSE Head(lg).page_text \o <<"\n">> \o TextOfLog(Tail(lg))

\* C4, as the claim has it: a page without embedded text whose rasterization
\* and OCR do not raise adds OCR's output to the text; a page with embedded text
\* adds it as it is, and neither rasterization nor OCR is called for it.
C4_BlankPageAddsOcrOutput ==
    /\ text = TextOfLog(log)
    /\ \A k \in 1..Len(log) :
         /\ (Strip(log[k].embedded) = <<>> /\ log[k].raster # "raised" /\ log[k].ocr # "raised")
              => (log[k].ocr = "ok" /\ log[k].page_text = log[k].out)
         /\ Strip(log[k].embedded) # <<>>
              => (log[k].page_text = log[k].embedded /\ log[k].raster = "none" /\ log[k].ocr = "none")

\* C4, amended: a page without embedded text is rasterized; when rasterization
\* gives an image and OCR does not raise it adds OCR's output, and when
\* rasterization gives no image OCR is not called and it adds its embedded text
\* as it is; a page with embedded text adds it as it is, and neither
\* rasterization nor OCR is called for it.
C4_BlankPageWithImageAddsOcrOutput ==
    /\ text = TextOfLog(log)
    /\ \A k \in 1..Len(log) :
         /\ Strip(log[k].embedded) = <<>> => log[k].raster # "none"
         /\ (Strip(log[k].embedded) = <<>> /\ log[k].raster = "ok" /\ log[k].ocr # "raised")
              => (log[k].ocr = "ok" /\ log[k].page_text = log[k].out)
         /\ (Strip(log[k].embedded) = <<>> /\ log[k].raster = "empty")
              => (log[k].ocr = "none" /\ log[k].page_text = log[k].embedded)
         /\ Strip(log[k].embedded) # <<>>
              => (log[k].page_text = log[k].embedded /\ log[k].raster = "none" /\ log[k].ocr = "none")

\* A page of one blank followed by a page with embedded text: OCR's output
\* stands for the first, the embedded text for the second, and the result is
\* the entry of each.
C4_Witness ==
    /\ pc = "done"
    /\ Len(log) = 2
    /\ log[1].embedded = BlankPage
    /\ log[1].ocr = "ok"
    /\ log[1].out # <<>>
    /\ log[2].raster = "none"
    /\ text = log[1].out \o <<"\n">> \o log[2].embedded \o <<"\n">>
    /\ Len(entries) = 2

\* C5: the page of every entry is a non-empty string of the digits 0-9, and the
\* token it was captured as holds Arabic and Devanagari digits only.
C5_PageIsArabicDigits ==
    /\ Len(tokens) = Len(entries)
    /\ \A k \in 1..Len(entries) :
         /\ IsRun(entries[k].page, ArabicDigits)
         /\ IsRun(tokens[k], ArabicDigits \cup HindiDigits)
         /\ Len(entries[k].page) = Len(tokens[k])

\* A Devanagari token has become an entry's page in Arabic digits, in Latin mode.
C5_Witness ==
    /\ pc = "done"
    /\ ~is_hindi
    /\ Len(entries) = 1
    /\ tokens[1] = <<"u0967", "u0968">>
    /\ entries[1].page = <<"1", "2">>

\* C6: the chapter of every entry is trimmed and not empty.
C6_ChapterNotEmpty ==
    \A k \in 1..Len(entries) :
        entries[k].chapter # <<>> /\ Strip(entries[k].chapter) = entries[k].chapter

\* C7: a line whose trimmed form is empty or shorter than 5 characters, or whose
\* lowercase form holds a skip term of the mode, adds no entry.
C7_SkippedLineAddsNothing ==
    [][ ( /\ AtLine
          /\ \/ Len(Strip(lines[line_idx])) < MinLineLen
             \/ ~NoTerm(lines[line_idx], SkipTerms(is_hindi)) )
        => entries' = entries
      ]_vars

\* "Page 5" matches a rule of Latin mode, holds the skip term "page" in
\* capitals, and has added nothing.
C7_Witness ==
    /\ pc = "done"
    /\ ~is_hindi
    /\ text = <<"P", "a", "g", "e", " ", "5">>
    /\ ReMatch(CommonDots, text).ok
    /\ entries = <<>>

\* C8: a line adds at most one entry, and for a text A + "\n" + B the result
\* is the result for A followed by the result for B.
C8_LinesAreIndependent ==
    /\ (pc \in {"loop", "done"} => Len(entries) <= line_idx - 1)
    /\ (pc = "done" =>
          \A i \in 1..Len(text) :
             text[i] = "\n" =>
                entries = ParseTocOf(SubStr(text, 1, i - 1), is_hindi)
                          \o ParseTocOf(SubStr(text, i + 1, Len(text)), is_hindi))

\* The same line twice has made the same entry twice.
C8_Witness ==
    /\ pc = "done"
    /\ text = <<"a", "b", "c", ".", "1", "\n", "a", "b", "c", ".", "1">>
    /\ Len(entries) = 2
    /\ entries[1] = entries[2]

\* C9: in Hindi mode a line T + S + D of at least 5 characters (T a trimmed,
\* non-empty title without a skip term that ends in no dot, dash, em dash or
\* space, S a non-empty run of dots and spaces, D a non-empty run of Arabic and Devanagari
\* digits) adds exactly the entry whose chapter is T and whose page is D in
\* Arabic digits.
C9_HindiDotLeader ==
    [][ (AtLine /\ is_hindi) =>
          LET line == lines[line_idx]
          IN  \A i, j \in 1..Len(line) :
                ( /\ i < j /\ j < Len(line) /\ Len(line) >= MinLineLen
                  /\ IsTitle(TitleOf(line, i), skip_terms_hindi, {"-", "u2014"})
                  /\ IsRun(SepOf(line, i, j), {".", " "})
                  /\ IsRun(PageOf(line, j), ArabicDigits \cup HindiDigits) )
                => entries' = Append(entries, [chapter |-> TitleOf(line, i),
                                               page |-> convert_hindi_digits(PageOf(line, j))])
      ]_vars

\* C10: the token every entry's page was captured as holds digits of one
\* script: Arabic digits only, or Devanagari digits only.
C10_TokenOfOneScript ==
    \A k \in 1..Len(tokens) :
        IsRun(tokens[k], ArabicDigits) \/ IsRun(tokens[k], HindiDigits)

====
